---- MODULE Spec2Model ----
(***************************************************************************)
(* A model of pptx_maker.py: the data-file reader, the image validator,    *)
(* the five slide builders, the plot renderer, the presentation assembler  *)
(* (makePresentation) and the interactive driver (main).                   *)
(*                                                                         *)
(* The functions of the program are operators computed the way the code    *)
(* computes them.  Each function has a specification of its own that draws *)
(* its arguments from bounded sets and applies it; main() is a state       *)
(* machine over its prompt loop.                                           *)
(***************************************************************************)
EXTENDS Integers, Sequences, FiniteSets, TLC

VARIABLES
    pc,             \* position of the running function or of main()'s loop
    args,           \* the arguments / environment the call was made with
    presentation,   \* the in-memory document: the sequence of its slides
    ret,            \* the value returned to the caller (NoValue before / on raise)
    exc,            \* the exception that left the function (NoExc if none)
    trace,          \* what the call did, in order (builders called, lines read, ...)
    files           \* the file system as far as the program changes it

vars == <<pc, args, presentation, ret, exc, trace, files>>

(***************************************************************************)
(* Bounds of the model.                                                    *)
(***************************************************************************)
MaxLines == 3       \* lines of a data file
MaxItems == 3       \* entries of a list slide
MaxPoints == 3      \* data points handed to the plot renderer
MaxSlides == 2      \* descriptors of a presentation
MaxIter == 2        \* iterations of main()'s loop that are followed

(***************************************************************************)
(* Values and exceptions.                                                  *)
(***************************************************************************)
NoValue == [kind |-> "none", v |-> <<>>]

\* A value handed back by `return`.
Returned(v) == [kind |-> "value", v |-> v]

NoExc == [type |-> "None", origin |-> "", names |-> <<>>]

\* An exception of class `type` raised at `origin` (function:line); `names`
\* lists what its message names.
Raise(type, origin, names) == [type |-> type, origin |-> origin, names |-> names]

\* Python's exception hierarchy as far as the except clauses of the program
\* tell classes apart: the classes an `except cls` clause catches.
SubclassesOf(cls) ==
    CASE cls = "IOError" ->     \* IOError is an alias of OSError
            {"OSError", "FileNotFoundError", "PermissionError",
             "IsADirectoryError", "UnidentifiedImageError"}
      [] cls = "ValueError" -> {"ValueError", "JSONDecodeError", "UnicodeDecodeError"}
      [] cls = "KeyError" -> {"KeyError"}
      [] cls = "TypeError" -> {"TypeError"}
      [] cls = "FileNotFoundError" -> {"FileNotFoundError"}
      [] cls = "PermissionError" -> {"PermissionError"}
      [] cls = "JSONDecodeError" -> {"JSONDecodeError"}
      [] OTHER -> {cls}

Catches(cls, e) == e.type \in SubclassesOf(cls)

(***************************************************************************)
(* Text: a string is a sequence of one-character strings.                  *)
(***************************************************************************)
Digits == {"0", "1", "2", "3", "4", "5", "6", "7", "8", "9"}

DigitVal(c) ==
    CASE c = "0" -> 0 [] c = "1" -> 1 [] c = "2" -> 2 [] c = "3" -> 3
      [] c = "4" -> 4 [] c = "5" -> 5 [] c = "6" -> 6 [] c = "7" -> 7
      [] c = "8" -> 8 [] c = "9" -> 9

DigitChar(d) ==
    CASE d = 0 -> "0" [] d = 1 -> "1" [] d = 2 -> "2" [] d = 3 -> "3"
      [] d = 4 -> "4" [] d = 5 -> "5" [] d = 6 -> "6" [] d = 7 -> "7"
      [] d = 8 -> "8" [] d = 9 -> "9"

\* str.strip(): leading and trailing whitespace removed.
RECURSIVE LStrip(_)
LStrip(s) == IF s # <<>> /\ Head(s) = " " THEN LStrip(Tail(s)) ELSE s

RECURSIVE RStrip(_)
RStrip(s) ==
    IF s # <<>> /\ s[Len(s)] = " " THEN RStrip(SubSeq(s, 1, Len(s) - 1)) ELSE s

Strip(s) == RStrip(LStrip(s))

\* str.split(';'): the pieces between the separators, empty pieces kept.
RECURSIVE SplitFrom(_, _, _)
SplitFrom(s, cur, acc) ==
    IF s = <<>> THEN Append(acc, cur)
    ELSE IF Head(s) = ";" THEN SplitFrom(Tail(s), <<>>, Append(acc, cur))
    ELSE SplitFrom(Tail(s), Append(cur, Head(s)), acc)

Split(s) == SplitFrom(s, <<>>, <<>>)

AllDigits(s) == \A i \in 1..Len(s) : s[i] \in Digits

RECURSIVE Pow10(_)
Pow10(n) == IF n = 0 THEN 1 ELSE 10 * Pow10(n - 1)

RECURSIVE DigitsToNat(_)
DigitsToNat(s) ==
    IF s = <<>> THEN 0
    ELSE 10 * DigitsToNat(SubSeq(s, 1, Len(s) - 1)) + DigitVal(s[Len(s)])

RECURSIVE NatToDigits(_)
NatToDigits(n) ==
    IF n < 10 THEN <<DigitChar(n)>>
    ELSE Append(NatToDigits(n \div 10), DigitChar(n % 10))

RECURSIVE DropTrailingZeros(_)
DropTrailingZeros(s) ==
    IF s # <<>> /\ s[Len(s)] = "0" THEN DropTrailingZeros(SubSeq(s, 1, Len(s) - 1))
    ELSE s

RECURSIVE Zeros(_)
Zeros(n) == IF n = 0 THEN <<>> ELSE <<"0">> \o Zeros(n - 1)

(***************************************************************************)
(* float(token), for the decimal literals without exponent.  A number is   *)
(* the record [m, e] standing for m / 10^e, with e as small as possible.   *)
(***************************************************************************)
Unsigned(t) == IF t # <<>> /\ Head(t) \in {"-", "+"} THEN Tail(t) ELSE t

DotAt(t) == IF \E i \in 1..Len(t) : t[i] = "."
            THEN CHOOSE i \in 1..Len(t) : t[i] = "." /\ \A j \in 1..(i - 1) : t[j] # "."
            ELSE 0

IntPart(t) == IF DotAt(t) = 0 THEN t ELSE SubSeq(t, 1, DotAt(t) - 1)

FracPart(t) == IF DotAt(t) = 0 THEN <<>> ELSE SubSeq(t, DotAt(t) + 1, Len(t))

\* float() accepts the token: surrounding whitespace, an optional sign, then
\* digits with an optional point, at least one digit in all.
IsFloat(token) ==
    LET u == Unsigned(Strip(token)) IN
        /\ AllDigits(IntPart(u))
        /\ AllDigits(FracPart(u))
        /\ Len(IntPart(u)) + Len(FracPart(u)) > 0

Float(token) ==
    LET s == Strip(token)
        u == Unsigned(s)
        frac == DropTrailingZeros(FracPart(u))
        mag == DigitsToNat(IntPart(u)) * Pow10(Len(frac)) + DigitsToNat(frac)
    IN  [m |-> IF s # <<>> /\ Head(s) = "-" THEN 0 - mag ELSE mag, e |-> Len(frac)]

\* str(x) of a float: sign, integer digits, a point and the fraction digits
\* ("0" when there are none).
Str(x) ==
    LET mag == IF x.m < 0 THEN 0 - x.m ELSE x.m
        ip == mag \div Pow10(x.e)
        fp == mag % Pow10(x.e)
        fd == IF x.e = 0 THEN <<"0">>
              ELSE Zeros(x.e - Len(NatToDigits(fp))) \o NatToDigits(fp)
    IN  (IF x.m < 0 THEN <<"-">> ELSE <<>>) \o NatToDigits(ip) \o <<".">> \o fd

\* x < y and x = y on numbers.
FloatLT(x, y) == x.m * Pow10(y.e) < y.m * Pow10(x.e)

FloatEQ(x, y) == x.m * Pow10(y.e) = y.m * Pow10(x.e)

(***************************************************************************)
(* readDataFile(filepath).  A file is [status, lines]: status "ok" or the  *)
(* class of the error open() raises for it.                                *)
(***************************************************************************)
RECURSIVE ReadLines(_, _, _, _)
ReadLines(path, lines, i, data) ==
    IF i > Len(lines)
    THEN [ret |-> Returned(data), exc |-> NoExc, data |-> data, read |-> Len(lines)]
    ELSE LET line == Strip(lines[i])
             values == Split(line)
         IN  IF line = <<>> THEN ReadLines(path, lines, i + 1, data)
             ELSE IF Len(values) = 2
             THEN IF IsFloat(values[1]) /\ IsFloat(values[2])
                  THEN ReadLines(path, lines, i + 1,
                                 Append(data, <<Float(values[1]), Float(values[2])>>))
                  ELSE [ret |-> NoValue, data |-> data, read |-> i,
                        exc |-> Raise("ValueError", "readDataFile:154", <<line, path>>)]
             ELSE [ret |-> NoValue, data |-> data, read |-> i,
                   exc |-> Raise("ValueError", "readDataFile:156", <<line, path>>)]

\* Variant: a malformed line is skipped with a warning instead of aborting.
RECURSIVE ReadLinesSkipBad(_, _, _, _)
ReadLinesSkipBad(path, lines, i, data) ==
    IF i > Len(lines)
    THEN [ret |-> Returned(data), exc |-> NoExc, data |-> data, read |-> Len(lines)]
    ELSE LET line == Strip(lines[i])
             values == Split(line)
         IN  IF line # <<>> /\ Len(values) = 2 /\ IsFloat(values[1]) /\ IsFloat(values[2])
             THEN ReadLinesSkipBad(path, lines, i + 1,
                                   Append(data, <<Float(values[1]), Float(values[2])>>))
             ELSE ReadLinesSkipBad(path, lines, i + 1, data)

readDataFileSkipBad(path, file) ==
    IF file.status # "ok"
    THEN [ret |-> NoValue, data |-> <<>>, read |-> 0,
          exc |-> Raise(file.status, "readDataFile:143", <<path>>)]
    ELSE ReadLinesSkipBad(path, file.lines, 1, <<>>)

\* Variant: each pair is inserted at the front of the list.
RECURSIVE Reversed(_)
Reversed(s) == IF s = <<>> THEN <<>> ELSE Append(Reversed(Tail(s)), Head(s))

readDataFilePrepend(path, file) ==
    LET r == IF file.status # "ok"
             THEN [ret |-> NoValue, data |-> <<>>, read |-> 0,
                   exc |-> Raise(file.status, "readDataFile:143", <<path>>)]
             ELSE ReadLines(path, file.lines, 1, <<>>)
    IN  [r EXCEPT !.ret = IF r.ret.kind = "value" THEN Returned(Reversed(r.ret.v))
                          ELSE r.ret]

readDataFile(path, file) ==
    IF file.status # "ok"
    THEN [ret |-> NoValue, data |-> <<>>, read |-> 0,
          exc |-> Raise(file.status, "readDataFile:143", <<path>>)]
    ELSE ReadLines(path, file.lines, 1, <<>>)


(***************************************************************************)
(* The document and the world the builders act on.  A slide is             *)
(* [layout, title, placeholder, paragraphs, pictures]: the layout index,   *)
(* the title text, the text of placeholders[1], the paragraphs added with  *)
(* add_paragraph() and the pictures added with add_picture().              *)
(*                                                                         *)
(* A world w carries the document (w.pres), the temporary files that exist *)
(* (w.temp) and how many were created (w.made), the point sequences given  *)
(* to plt.plot (w.plots), the builders called (w.calls), the data files    *)
(* handed to readDataFile (w.reads), the exception raised so far (w.exc)   *)
(* and the environment (w.env): the outcomes of plt.savefig, add_picture   *)
(* and os.remove on the temporary file.                                    *)
(***************************************************************************)
World(env) ==
    [pres |-> <<>>, temp |-> {}, made |-> 0, plots |-> <<>>, calls |-> <<>>,
     reads |-> <<>>, exc |-> NoExc, env |-> env]

Raised(w) == w.exc.type # "None"

\* presentation.slides.add_slide(presentation.slide_layouts[layout])
AddSlide(w, layout) ==
    [w EXCEPT !.pres = Append(@, [layout |-> layout, title |-> "", placeholder |-> "",
                                  paragraphs |-> <<>>, pictures |-> <<>>])]

\* slide.shapes.title.text = text, on the slide just added
SetTitle(w, text) == [w EXCEPT !.pres[Len(w.pres)].title = text]

\* slide.placeholders[1].text = text
SetPlaceholder(w, text) == [w EXCEPT !.pres[Len(w.pres)].placeholder = text]

Called(w, name) == [w EXCEPT !.calls = Append(@, name)]

addTitleSlide(w, title_text, subtitle_text) ==
    SetPlaceholder(SetTitle(AddSlide(Called(w, "addTitleSlide"), 0), title_text),
                   subtitle_text)

\* Variant: the body text goes to the title and the title to the body.
addTextSlideSwapped(w, title_text, text) ==
    SetPlaceholder(SetTitle(AddSlide(Called(w, "addTextSlide"), 1), text), title_text)

addTextSlide(w, title_text, text) ==
    SetPlaceholder(SetTitle(AddSlide(Called(w, "addTextSlide"), 1), title_text), text)

(***************************************************************************)
(* addListSlide.  A list item is [keys, level, text]; its level is a JSON  *)
(* value: an integer [t |-> "int", n], a number with a fraction            *)
(* [t |-> "float", m, e] (m / 10^e), a string [t |-> "str", s] or null.    *)
(***************************************************************************)
IsIntLiteral(s) ==
    LET u == Unsigned(Strip(s)) IN u # <<>> /\ AllDigits(u)

\* int(v): [ok, n] or [ok |-> FALSE, type]: integers as they are, floats
\* truncated towards zero, strings parsed, null refused.
PyInt(v) ==
    CASE v.t = "int" -> [ok |-> TRUE, n |-> v.n, type |-> ""]
      [] v.t = "float" ->
            [ok |-> TRUE, type |-> "",
             n |-> IF v.m < 0 THEN 0 - ((0 - v.m) \div Pow10(v.e))
                   ELSE v.m \div Pow10(v.e)]
      [] v.t = "str" ->
            IF IsIntLiteral(v.s)
            THEN LET t == Strip(v.s) IN
                 [ok |-> TRUE, type |-> "",
                  n |-> IF Head(t) = "-" THEN 0 - DigitsToNat(Unsigned(t))
                        ELSE DigitsToNat(Unsigned(t))]
            ELSE [ok |-> FALSE, n |-> 0, type |-> "ValueError"]
      [] OTHER -> [ok |-> FALSE, n |-> 0, type |-> "TypeError"]

\* The loop of addListSlide from item i on.
RECURSIVE ListItems(_, _, _, _)
ListItems(w, title_text, list_json, i) ==
    IF i > Len(list_json) THEN w
    ELSE LET list_item == list_json[i] IN
        IF "level" \notin list_item.keys
        THEN [w EXCEPT !.exc = Raise("KeyError", "addListSlide:76", <<"level">>)]
        ELSE LET level == PyInt(list_item.level) IN
            IF ~level.ok
            THEN [w EXCEPT !.exc = Raise(level.type, "addListSlide:76", <<"int()">>)]
            ELSE IF ~(level.n > 0)
            THEN [w EXCEPT !.exc = Raise("ValueError", "addListSlide:78",
                                         <<"entry", i, title_text>>)]
            ELSE IF "text" \notin list_item.keys
            THEN [w EXCEPT !.exc = Raise("KeyError", "addListSlide:79", <<"text">>)]
            ELSE ListItems(
                    [w EXCEPT !.pres[Len(w.pres)].paragraphs =
                        Append(@, [text |-> list_item.text, level |-> level.n - 1,
                                   item |-> i])],
                    title_text, list_json, i + 1)

addListSlide(w, title_text, list_json) ==
    ListItems(SetPlaceholder(SetTitle(AddSlide(Called(w, "addListSlide"), 1), title_text),
                             ""),
              title_text, list_json, 1)

(***************************************************************************)
(* isValidImage and addImgSlide.  An image file is [path, exists,          *)
(* readable, content]; content is "png" (a sound raster image), "text"     *)
(* (no image format recognises it) or "brokenpng" (a PNG header followed   *)
(* by a damaged chunk stream).                                             *)
(***************************************************************************)
\* `with Image.open(filepath) as img: img.verify()`: "ok" or the class of
\* the exception raised.  open() fails on a missing or unreadable file and
\* on data no format recognises (UnidentifiedImageError, an OSError);
\* verify() reports a damaged PNG chunk stream as SyntaxError.
OpenAndVerify(img) ==
    IF ~img.exists THEN "FileNotFoundError"
    ELSE IF ~img.readable THEN "PermissionError"
    ELSE IF img.content = "text" THEN "UnidentifiedImageError"
    ELSE IF img.content = "brokenpng" THEN "SyntaxError"
    ELSE "ok"

isValidImage(img) ==
    LET outcome == OpenAndVerify(img) IN
        IF outcome = "ok" THEN [ret |-> Returned(TRUE), exc |-> NoExc]
        ELSE IF Catches("IOError", [type |-> outcome])
        THEN [ret |-> Returned(FALSE), exc |-> NoExc]
        ELSE [ret |-> NoValue, exc |-> Raise(outcome, "isValidImage:97", <<img.path>>)]

\* Variant: the image is validated before the slide is added.
addImgSlideValidateFirst(w, title_text, img) ==
    LET w0 == Called(w, "addImgSlide")
        valid == isValidImage(img)
    IN  IF valid.exc.type # "None" THEN [w0 EXCEPT !.exc = valid.exc]
        ELSE IF ~valid.ret.v
        THEN [w0 EXCEPT !.exc = Raise("ValueError", "addImgSlide:124", <<img.path>>)]
        ELSE LET w1 == SetTitle(AddSlide(w0, 5), title_text)
             IN  [w1 EXCEPT !.pres[Len(w1.pres)].pictures = Append(@, img.path)]

addImgSlide(w, title_text, img) ==
    LET w1 == SetTitle(AddSlide(Called(w, "addImgSlide"), 5), title_text)
        valid == isValidImage(img)
    IN  IF valid.exc.type # "None" THEN [w1 EXCEPT !.exc = valid.exc]
        ELSE IF ~valid.ret.v
        THEN [w1 EXCEPT !.exc = Raise("ValueError", "addImgSlide:124", <<img.path>>)]
        ELSE [w1 EXCEPT !.pres[Len(w1.pres)].pictures = Append(@, img.path)]

(***************************************************************************)
(* createPlotImage, addChartToPlotSlide and addPlotSlide.                  *)
(***************************************************************************)
\* Python's order on 2-tuples: by the first component, then by the second.
TupleLT(p, q) ==
    \/ FloatLT(p[1], q[1])
    \/ FloatEQ(p[1], q[1]) /\ FloatLT(p[2], q[2])

\* list.sort(): a stable sort by TupleLT.
RECURSIVE InsertSorted(_, _)
InsertSorted(p, s) ==
    IF s = <<>> THEN <<p>>
    ELSE IF TupleLT(p, Head(s)) THEN <<p>> \o s
    ELSE <<Head(s)>> \o InsertSorted(p, Tail(s))

\* Variant: the points are plotted in the order given.
Unsorted(s) == s

\* Variant: list.sort(key=x): a stable sort that compares the x-values only.
RECURSIVE InsertSortedByX(_, _)
InsertSortedByX(p, s) ==
    IF s = <<>> THEN <<p>>
    ELSE IF FloatLT(p[1], Head(s)[1]) THEN <<p>> \o s
    ELSE <<Head(s)>> \o InsertSortedByX(p, Tail(s))

RECURSIVE SortByXOnly(_)
SortByXOnly(s) ==
    IF s = <<>> THEN <<>>
    ELSE InsertSortedByX(s[Len(s)], SortByXOnly(SubSeq(s, 1, Len(s) - 1)))

RECURSIVE ListSort(_)
ListSort(s) ==
    IF s = <<>> THEN <<>>
    ELSE InsertSorted(s[Len(s)], ListSort(SubSeq(s, 1, Len(s) - 1)))

TempName(n) == <<"tmp", n>>

\* Returns [w, ret]: the points are sorted and plotted, the temporary file
\* is created (delete=False), then the figure is saved into it.
createPlotImage(w, datapoints, x_label, y_label) ==
    LET sorted == ListSort(datapoints)
        name == TempName(w.made + 1)
        w1 == [w EXCEPT !.plots = Append(@, [points |-> sorted, x_label |-> x_label,
                                             y_label |-> y_label]),
                        !.temp = @ \cup {name},
                        !.made = @ + 1]
    IN  IF w.env.savefig # "ok"
        THEN [w |-> [w1 EXCEPT !.exc = Raise(w.env.savefig, "createPlotImage:182",
                                             <<name>>)],
              ret |-> NoValue]
        ELSE [w |-> w1, ret |-> Returned(name)]

addChartToPlotSlide(w, datapoints, x_label, y_label) ==
    LET made == createPlotImage(w, datapoints, x_label, y_label)
        w1 == made.w
    IN  IF Raised(w1) THEN w1
        ELSE IF w1.env.add_picture # "ok"
        THEN [w1 EXCEPT !.exc = Raise(w1.env.add_picture, "addChartToPlotSlide:206",
                                      <<made.ret.v>>)]
        ELSE LET w2 == [w1 EXCEPT !.pres[Len(w1.pres)].pictures = Append(@, made.ret.v)]
             IN  IF w2.env.remove # "ok"
                 THEN [w2 EXCEPT !.exc = Raise(w2.env.remove, "addChartToPlotSlide:207",
                                               <<made.ret.v>>)]
                 ELSE [w2 EXCEPT !.temp = @ \ {made.ret.v}]

addPlotSlide(w, title_text, data, x_label, y_label) ==
    LET w0 == SetTitle(AddSlide(Called(w, "addPlotSlide"), 5), title_text)
        w1 == [w0 EXCEPT !.reads = Append(@, data.path)]
        r == readDataFile(data.path, data.file)
    IN  IF r.exc.type # "None" THEN [w1 EXCEPT !.exc = r.exc]
        ELSE addChartToPlotSlide(w1, r.ret.v, x_label, y_label)

(***************************************************************************)
(* makePresentation.  The root object is [keys, presentation]; a slide     *)
(* descriptor is [keys, type, title, content, cfgkeys, x_label, y_label],  *)
(* keys and cfgkeys the keys present in the object and in its              *)
(* 'configuration'.  A content is [text, list_json, img, data]: the field  *)
(* its slide type reads.                                                   *)
(***************************************************************************)
\* The first of the keys, in the order the code reads them, that the
\* object lacks: "" if it has them all.
FirstMissing(required, present) ==
    IF \E i \in 1..Len(required) : required[i] \notin present
    THEN required[CHOOSE i \in 1..Len(required) :
                    /\ required[i] \notin present
                    /\ \A j \in 1..(i - 1) : required[j] \in present]
    ELSE ""

\* Variant: 'content' is read with a default instead of required.
MissingSlideKeyLax(slide_data) == FirstMissing(<<"type", "title">>, slide_data.keys)

\* slide_data["type"], ["title"], ["content"] (lines 262-264)
MissingSlideKey(slide_data) ==
    FirstMissing(<<"type", "title", "content">>, slide_data.keys)

\* slide_data["configuration"], ["x-label"], ["y-label"] (lines 281-283)
MissingPlotKey(slide_data) ==
    IF "configuration" \notin slide_data.keys THEN "configuration"
    ELSE FirstMissing(<<"x-label", "y-label">>, slide_data.cfgkeys)

\* Variant: the slide type is matched ignoring case.
BuilderForAnyCase(slide_type) ==
    CASE slide_type \in {"title", "Title"} -> "addTitleSlide"
      [] slide_type = "text" -> "addTextSlide"
      [] slide_type = "list" -> "addListSlide"
      [] slide_type = "picture" -> "addImgSlide"
      [] slide_type = "plot" -> "addPlotSlide"
      [] OTHER -> ""

\* The if / elif chain of lines 268-289: the builder of a slide type, "" for
\* the else branch.
BuilderFor(slide_type) ==
    CASE slide_type = "title" -> "addTitleSlide"
      [] slide_type = "text" -> "addTextSlide"
      [] slide_type = "list" -> "addListSlide"
      [] slide_type = "picture" -> "addImgSlide"
      [] slide_type = "plot" -> "addPlotSlide"
      [] OTHER -> ""

\* The body of the loop for the i-th descriptor.
ProcessSlide(w, slide_data, i) ==
    IF MissingSlideKey(slide_data) # ""
    THEN [w EXCEPT !.exc = Raise("KeyError", "makePresentation:266",
                                 <<i, MissingSlideKey(slide_data)>>)]
    ELSE LET builder == BuilderFor(slide_data.type)
             slide_title == slide_data.title
             slide_content == slide_data.content
         IN  CASE builder = "addTitleSlide" ->
                    addTitleSlide(w, slide_title, slide_content.text)
               [] builder = "addTextSlide" ->
                    addTextSlide(w, slide_title, slide_content.text)
               [] builder = "addListSlide" ->
                    addListSlide(w, slide_title, slide_content.list_json)
               [] builder = "addImgSlide" ->
                    addImgSlide(w, slide_title, slide_content.img)
               [] builder = "addPlotSlide" ->
                    IF MissingPlotKey(slide_data) # ""
                    THEN [w EXCEPT !.exc = Raise("KeyError", "makePresentation:285",
                                                 <<i, MissingPlotKey(slide_data)>>)]
                    ELSE addPlotSlide(w, slide_title, slide_content.data,
                                      slide_data.x_label, slide_data.y_label)
               [] OTHER ->
                    [w EXCEPT !.exc = Raise("ValueError", "makePresentation:289",
                                            <<slide_data.type, i>>)]

\* The for loop from the i-th descriptor on: stops at the first exception.
RECURSIVE ProcessSlides(_, _, _)
ProcessSlides(w, json_root, i) ==
    IF i > Len(json_root) \/ Raised(w) THEN w
    ELSE ProcessSlides(ProcessSlide(w, json_root[i], i), json_root, i + 1)

\* The whole call: [w, ret].
makePresentation(json_data, env) ==
    LET w0 == World(env) IN
        IF "presentation" \notin json_data.keys
        THEN [w |-> [w0 EXCEPT !.exc = Raise("KeyError", "makePresentation:258",
                                             <<"presentation">>)],
              ret |-> NoValue]
        ELSE LET w == ProcessSlides(w0, json_data.presentation, 1) IN
                [w |-> w, ret |-> IF Raised(w) THEN NoValue ELSE Returned(w.pres)]

(***************************************************************************)
(* The call harness shared by the specifications of the single functions:  *)
(* a call is made once, with the arguments Init chose.                     *)
(***************************************************************************)
SeqUpTo(S, n) == UNION {[1..k -> S] : k \in 0..n}

Outcome(r) == IF r.exc.type = "None" THEN "returned" ELSE "raised"

(***************************************************************************)
(* Specification SpecRead: readDataFile on a data file.                    *)
(***************************************************************************)
\* Lines a data file is made of (without the line terminator).
LinePool ==
    { <<>>, <<" ">>,
      <<"1", ";", "2">>, <<"2", ";", "1">>,
      <<"1", ".", "5", ";", "2", ".", "0">>,
      <<" ", "1", " ", ";", " ", "2", " ">>,
      <<"-", "1", ";", ".", "5">>,
      <<"1", ";", "2", ";", "3">>,
      <<"1">>, <<";">>, <<"1", ";">>,
      <<"a", ";", "1">>, <<"1", ";", "a">>,
      <<"1", " ", "2", ";", "3">> }

\* Numbers a test writes to a data file: 1.0, 10.0, 5.6, -0.25.
NumPool == { [m |-> 1, e |-> 0], [m |-> 10, e |-> 0],
             [m |-> 56, e |-> 1], [m |-> 0 - 25, e |-> 2] }

\* The lines test_ReadDataFile writes for a sequence of pairs:
\* ';'.join(str(value) for value in line).
WriteLines(pairs) ==
    [i \in 1..Len(pairs) |-> Str(pairs[i][1]) \o <<";">> \o Str(pairs[i][2])]

ReadArgs ==
    {[path |-> "data.dat", mode |-> "lines", pairs |-> <<>>,
      file |-> [status |-> "ok", lines |-> ls]] : ls \in SeqUpTo(LinePool, MaxLines)}
    \cup
    {[path |-> "data.dat", mode |-> "written", pairs |-> ps,
      file |-> [status |-> "ok", lines |-> WriteLines(ps)]] :
        ps \in SeqUpTo(NumPool \X NumPool, MaxLines - 1)}
    \cup
    {[path |-> "data.dat", mode |-> "lines", pairs |-> <<>>,
      file |-> [status |-> st, lines |-> <<>>]] :
        st \in {"FileNotFoundError", "PermissionError"}}

InitRead ==
    /\ pc = "call"
    /\ args \in ReadArgs
    /\ presentation = <<>>
    /\ ret = NoValue
    /\ exc = NoExc
    /\ trace = <<>>
    /\ files = {}

CallReadDataFile ==
    /\ pc = "call"
    /\ LET r == readDataFile(args.path, args.file) IN
        /\ pc' = Outcome(r)
        /\ ret' = r.ret
        /\ exc' = r.exc
        /\ trace' = [data |-> r.data, read |-> r.read]
    /\ UNCHANGED <<args, presentation, files>>

NextRead == CallReadDataFile

SpecRead == InitRead /\ [][NextRead]_vars


(***************************************************************************)
(* Claims about readDataFile.                                              *)
(***************************************************************************)
SemiAt(s) == {i \in 1..Len(s) : s[i] = ";"}

\* A line of two numeric tokens separated by one ';'.
WellFormedLine(l) ==
    LET s == Strip(l) IN
        /\ Cardinality(SemiAt(s)) = 1
        /\ LET p == CHOOSE p \in SemiAt(s) : TRUE IN
            /\ IsFloat(SubSeq(s, 1, p - 1))
            /\ IsFloat(SubSeq(s, p + 1, Len(s)))

IsBlank(l) == \A i \in 1..Len(l) : l[i] = " "

Malformed(l) == ~IsBlank(l) /\ ~WellFormedLine(l)

\* Index of the first malformed line, 0 if there is none.
FirstMalformed(lines) ==
    IF \E i \in 1..Len(lines) : Malformed(lines[i])
    THEN CHOOSE i \in 1..Len(lines) :
            Malformed(lines[i]) /\ \A j \in 1..(i - 1) : ~Malformed(lines[j])
    ELSE 0

\* The pairs of the non-blank lines, in line order.
ExpectedPairs(lines) ==
    LET nb == SelectSeq(lines, LAMBDA l : ~IsBlank(l)) IN
        [i \in 1..Len(nb) |->
            LET s == Strip(nb[i])
                p == CHOOSE p \in SemiAt(s) : TRUE
            IN  <<Float(SubSeq(s, 1, p - 1)), Float(SubSeq(s, p + 1, Len(s)))>>]

\* C4: a file with a malformed non-blank line makes readDataFile raise
\* ValueError; the read stops at the first such line in file order and
\* nothing is returned, the pairs of the earlier lines included.
C4_MalformedLineAborts ==
    (pc # "call" /\ args.file.status = "ok" /\ FirstMalformed(args.file.lines) # 0)
        => /\ pc = "raised"
           /\ exc.type = "ValueError"
           /\ ret.kind = "none"
           /\ trace.read = FirstMalformed(args.file.lines)

C4_Witness ==
    /\ pc = "raised"
    /\ exc.type = "ValueError"
    /\ trace.read = 2
    /\ Len(trace.data) = 1
    /\ Len(args.file.lines) = 3

\* C5: for a well-formed file readDataFile returns one pair per non-blank
\* line, in line order, blank lines skipped; a file written from known
\* pairs reads back as those pairs.
C5_WellFormedReadsInOrder ==
    (pc # "call" /\ args.file.status = "ok" /\ FirstMalformed(args.file.lines) = 0)
        => /\ pc = "returned"
           /\ exc.type = "None"
           /\ ret.kind = "value"
           /\ ret.v = ExpectedPairs(args.file.lines)
           /\ args.mode = "written" => ret.v = args.pairs

C5_Witness ==
    /\ pc = "returned"
    /\ args.mode = "lines"
    /\ Len(args.file.lines) = 3
    /\ IsBlank(args.file.lines[2])
    /\ Len(ret.v) = 2
    /\ ret.v[1] # ret.v[2]

C5_WitnessRoundTrip ==
    /\ pc = "returned"
    /\ args.mode = "written"
    /\ Len(args.pairs) = 2
    /\ args.pairs[1] # args.pairs[2]


(***************************************************************************)
(* Specification SpecList: addListSlide on an empty presentation.          *)
(***************************************************************************)
\* The environment of a run in which nothing fails outside the program.
CalmEnv == [savefig |-> "ok", add_picture |-> "ok", remove |-> "ok"]

LevelPool ==
    {[t |-> "int", n |-> n] : n \in (0 - 1)..3}
    \cup {[t |-> "float", m |-> 15, e |-> 1],      \* 1.5
          [t |-> "float", m |-> 5, e |-> 1],       \* 0.5
          [t |-> "str", s |-> <<"2">>],
          [t |-> "str", s |-> <<"x">>],
          [t |-> "null"]}

ItemPool ==
    {[keys |-> {"level", "text"}, level |-> l, text |-> "a"] : l \in LevelPool}
    \cup {[keys |-> {"text"}, level |-> [t |-> "null"], text |-> "a"],
          [keys |-> {"level"}, level |-> [t |-> "int", n |-> 1], text |-> ""]}

InitList ==
    /\ pc = "call"
    /\ args \in {[title_text |-> "Title", list_json |-> js] :
                    js \in SeqUpTo(ItemPool, MaxItems)}
    /\ presentation = <<>>
    /\ ret = NoValue
    /\ exc = NoExc
    /\ trace = <<>>
    /\ files = {}

CallAddListSlide ==
    /\ pc = "call"
    /\ LET w == addListSlide(World(CalmEnv), args.title_text, args.list_json) IN
        /\ pc' = Outcome(w)
        /\ presentation' = w.pres
        /\ exc' = w.exc
        /\ trace' = w.calls
    /\ UNCHANGED <<args, ret, files>>

NextList == CallAddListSlide

SpecList == InitList /\ [][NextList]_vars

(***************************************************************************)
(* Claims about addListSlide.                                              *)
(***************************************************************************)
HasNumericLevel(item) == "level" \in item.keys /\ item.level.t \in {"int", "float"}

\* The item's level as a number [m, e].
LevelNumber(item) ==
    IF item.level.t = "int" THEN [m |-> item.level.n, e |-> 0]
    ELSE [m |-> item.level.m, e |-> item.level.e]

LevelNonPositive(item) == HasNumericLevel(item) /\ LevelNumber(item).m <= 0

\* n = level - 1
IsLevelMinusOne(n, item) ==
    LET l == LevelNumber(item) IN n * Pow10(l.e) = l.m - Pow10(l.e)

\* An item the list-slide schema admits but for the sign of its level: both
\* keys, a numeric level.
NumericItem(item) == item.keys = {"level", "text"} /\ HasNumericLevel(item)

FirstNonPositive(js) ==
    IF \E i \in 1..Len(js) : LevelNonPositive(js[i])
    THEN CHOOSE i \in 1..Len(js) :
            LevelNonPositive(js[i]) /\ \A j \in 1..(i - 1) : ~LevelNonPositive(js[j])
    ELSE 0

\* C6: every entry's paragraph has indentation level - 1, in item order; an
\* entry with level <= 0 raises ValueError naming the entry and the slide
\* title, and neither it nor a later entry gets a paragraph.
C6_ListLevels ==
    (pc # "call" /\ \A i \in 1..Len(args.list_json) : NumericItem(args.list_json[i]))
        => LET js == args.list_json
               paras == presentation[1].paragraphs
               k == FirstNonPositive(js)
           IN  /\ \A j \in 1..Len(paras) :
                    /\ paras[j].item = j
                    /\ paras[j].text = js[j].text
                    /\ IsLevelMinusOne(paras[j].level, js[j])
               /\ k # 0 => /\ pc = "raised"
                           /\ exc.type = "ValueError"
                           /\ exc.origin = "addListSlide:78"
                           /\ exc.names = <<"entry", k, args.title_text>>
                           /\ Len(paras) = k - 1

\* The same for the inputs whose levels are all JSON integers.
IntegerItem(item) == item.keys = {"level", "text"} /\ item.level.t = "int"

C6_IntegerLevels ==
    (pc # "call" /\ \A i \in 1..Len(args.list_json) : IntegerItem(args.list_json[i]))
        => /\ C6_ListLevels
           /\ FirstNonPositive(args.list_json) = 0
                => /\ pc = "returned"
                   /\ Len(presentation[1].paragraphs) = Len(args.list_json)

C6_IntegerWitness ==
    /\ pc = "raised"
    /\ \A i \in 1..Len(args.list_json) : IntegerItem(args.list_json[i])
    /\ Len(args.list_json) = 3
    /\ FirstNonPositive(args.list_json) = 3
    /\ Len(presentation[1].paragraphs) = 2
    /\ presentation[1].paragraphs[2].level = 2


(***************************************************************************)
(* Specification SpecPlot: createPlotImage on a list of data points.       *)
(***************************************************************************)
Num(n) == [m |-> n, e |-> 0]

\* x in {1, 1.5, 3}, y in {2, 4}
PointPool == {Num(1), [m |-> 15, e |-> 1], Num(3)} \X {Num(2), Num(4)}

InitPlot ==
    /\ pc = "call"
    /\ args \in {[datapoints |-> d, x_label |-> "x", y_label |-> "y",
                  env |-> [CalmEnv EXCEPT !.savefig = sf]] :
                    d \in SeqUpTo(PointPool, MaxPoints), sf \in {"ok", "OSError"}}
    /\ presentation = <<>>
    /\ ret = NoValue
    /\ exc = NoExc
    /\ trace = <<>>
    /\ files = {}

CallCreatePlotImage ==
    /\ pc = "call"
    /\ LET r == createPlotImage(World(args.env), args.datapoints,
                                args.x_label, args.y_label) IN
        /\ pc' = Outcome(r.w)
        /\ ret' = r.ret
        /\ exc' = r.w.exc
        /\ trace' = r.w.plots
        /\ files' = r.w.temp
    /\ UNCHANGED <<args, presentation>>

NextPlot == CallCreatePlotImage

SpecPlot == InitPlot /\ [][NextPlot]_vars

(***************************************************************************)
(* Claims about createPlotImage.                                           *)
(***************************************************************************)
Occurrences(s, p) == Cardinality({i \in 1..Len(s) : s[i] = p})

IsPermutation(s, t) ==
    /\ Len(s) = Len(t)
    /\ \A p \in PointPool : Occurrences(s, p) = Occurrences(t, p)

\* C7: whatever the order of the input, the plotted sequence is a
\* permutation of the input whose x-values are non-decreasing.
C7_PlottedSortedByX ==
    pc # "call"
        => /\ Len(trace) = 1
           /\ IsPermutation(trace[1].points, args.datapoints)
           /\ \A i \in 1..(Len(trace[1].points) - 1) :
                ~FloatLT(trace[1].points[i + 1][1], trace[1].points[i][1])

C7_Witness ==
    /\ pc = "returned"
    /\ args.datapoints = <<<<Num(3), Num(4)>>, <<Num(1), Num(2)>>>>
    /\ trace[1].points = <<<<Num(1), Num(2)>>, <<Num(3), Num(4)>>>>


(***************************************************************************)
(* Specification SpecImg: isValidImage on a file, and addImgSlide on a     *)
(* presentation that already has some slides.                              *)
(***************************************************************************)
ImagePool ==
    {[path |-> "picture.png", exists |-> TRUE, readable |-> TRUE, content |-> "png"],
     [path |-> "missing.png", exists |-> FALSE, readable |-> FALSE, content |-> "png"],
     [path |-> "notes.txt", exists |-> TRUE, readable |-> TRUE, content |-> "text"],
     [path |-> "locked.png", exists |-> TRUE, readable |-> FALSE, content |-> "png"],
     [path |-> "broken.png", exists |-> TRUE, readable |-> TRUE, content |-> "brokenpng"]}

Titles == {"T1", "T2"}

\* The documents a sequence of title and text slides leaves.
RECURSIVE BuildText(_, _)
BuildText(w, slides) ==
    IF slides = <<>> THEN w
    ELSE BuildText(IF Head(slides)[1] = "title"
                   THEN addTitleSlide(w, Head(slides)[2], "C")
                   ELSE addTextSlide(w, Head(slides)[2], "C"),
                   Tail(slides))

InitImg ==
    /\ pc = "call"
    /\ args \in {[img |-> i, title_text |-> t, before |-> b] :
                    i \in ImagePool, t \in Titles,
                    b \in SeqUpTo({"title", "text"} \X Titles, MaxSlides)}
    /\ presentation = BuildText(World(CalmEnv), args.before).pres
    /\ ret = NoValue
    /\ exc = NoExc
    /\ trace = <<>>
    /\ files = {}

CallIsValidImage ==
    /\ pc = "call"
    /\ LET r == isValidImage(args.img) IN
        /\ pc' = Outcome(r)
        /\ ret' = r.ret
        /\ exc' = r.exc
        /\ trace' = <<"isValidImage">>
    /\ UNCHANGED <<args, presentation, files>>

CallAddImgSlide ==
    /\ pc = "call"
    /\ LET w == addImgSlide([World(CalmEnv) EXCEPT !.pres = presentation],
                            args.title_text, args.img) IN
        /\ pc' = Outcome(w)
        /\ presentation' = w.pres
        /\ exc' = w.exc
        /\ trace' = w.calls
    /\ UNCHANGED <<args, ret, files>>

NextImg == CallIsValidImage \/ CallAddImgSlide

SpecImg == InitImg /\ [][NextImg]_vars

(***************************************************************************)
(* Claims about isValidImage and addImgSlide.                              *)
(***************************************************************************)
\* The path names an existing file that decodes as a raster image.
DecodableImage(img) == img.exists /\ img.readable /\ img.content = "png"

Embedded(doc) == {i \in 1..Len(doc) : doc[i].pictures # <<>>}

\* C10: isValidImage never raises and returns true exactly for an existing
\* file that decodes as an image; addImgSlide embeds the picture only when
\* the validator returned true and otherwise raises ValueError, embedding
\* nothing.
C10_ValidatorNeverRaises ==
    /\ (pc # "call" /\ trace = <<"isValidImage">>)
        => /\ pc = "returned"
           /\ ret.v = DecodableImage(args.img)
    /\ (pc # "call" /\ trace = <<"addImgSlide">>)
        => IF DecodableImage(args.img)
           THEN /\ pc = "returned"
                /\ presentation[Len(presentation)].pictures = <<args.img.path>>
           ELSE /\ pc = "raised"
                /\ exc.type = "ValueError"
                /\ Embedded(presentation) = {}

\* The same for the files whose failure open() or verify() reports as an
\* IOError.
C10_ForIOErrors ==
    OpenAndVerify(args.img) \in SubclassesOf("IOError") \cup {"ok"}
        => C10_ValidatorNeverRaises


(***************************************************************************)
(* Specification SpecMake: makePresentation, one loop iteration per step.  *)
(* trace is [i, at, calls, plots, reads]: i descriptors were processed, at *)
(* is the index of the descriptor that raised (0 if none); files is        *)
(* [temp, made].                                                           *)
(***************************************************************************)
NoImg == [path |-> "", exists |-> FALSE, readable |-> FALSE, content |-> ""]

NoData == [path |-> "", file |-> [status |-> "FileNotFoundError", lines |-> <<>>]]

Content(text, list_json, img, data) ==
    [text |-> text, list_json |-> list_json, img |-> img, data |-> data]

TextContent(text) == Content(text, <<>>, NoImg, NoData)

Item(n) == [keys |-> {"level", "text"}, level |-> [t |-> "int", n |-> n], text |-> "a"]

ImageAt(path) == CHOOSE i \in ImagePool : i.path = path

\* data.dat holds "2;1" then "1;2"; bad.dat holds "1;2" then "1;a".
DataAt(path) ==
    CASE path = "data.dat" ->
            [path |-> path,
             file |-> [status |-> "ok",
                       lines |-> <<<<"2", ";", "1">>, <<"1", ";", "2">>>>]]
      [] path = "bad.dat" ->
            [path |-> path,
             file |-> [status |-> "ok",
                       lines |-> <<<<"1", ";", "2">>, <<"1", ";", "a">>>>]]
      [] OTHER -> [path |-> path, file |-> [status |-> "FileNotFoundError", lines |-> <<>>]]

AllKeys == {"type", "title", "content"}

Desc(keys, type, title, content, cfgkeys) ==
    [keys |-> keys, type |-> type, title |-> title, content |-> content,
     cfgkeys |-> cfgkeys, x_label |-> "x", y_label |-> "y"]

PlotDesc(keys, path, cfgkeys) ==
    Desc(keys, "plot", "T2", Content("", <<>>, NoImg, DataAt(path)), cfgkeys)

Labels == {"x-label", "y-label"}

\* Descriptors that build a slide when nothing fails in the environment.
GoodDescriptors ==
    { Desc(AllKeys, "title", "T1", TextContent("C"), {}),
      Desc(AllKeys, "text", "T2", TextContent("C"), {}),
      Desc(AllKeys, "list", "T1", Content("", <<Item(1), Item(2)>>, NoImg, NoData), {}),
      Desc(AllKeys, "picture", "T2",
           Content("", <<>>, ImageAt("picture.png"), NoData), {}),
      PlotDesc(AllKeys \cup {"configuration"}, "data.dat", Labels) }

\* Descriptors that lack a key or have an unknown type.
BadDescriptors ==
    { Desc({"title", "content"}, "", "T1", TextContent("C"), {}),
      Desc({"type", "content"}, "text", "", TextContent("C"), {}),
      Desc({"type", "title"}, "bogus", "T1", TextContent(""), {}),
      Desc({"type", "content", "configuration"}, "plot", "",
           Content("", <<>>, NoImg, DataAt("data.dat")), Labels),
      Desc(AllKeys, "bogus", "T1", TextContent("C"), {}),
      Desc(AllKeys, "Title", "T1", TextContent("C"), {}),
      PlotDesc(AllKeys, "data.dat", {}),
      PlotDesc(AllKeys \cup {"configuration"}, "data.dat", {"y-label"}),
      PlotDesc(AllKeys \cup {"configuration"}, "data.dat", {"x-label"}) }

\* Descriptors whose builder raises.
FailingDescriptors ==
    { Desc(AllKeys, "list", "T1", Content("", <<Item(1), Item(0)>>, NoImg, NoData), {}),
      Desc(AllKeys, "picture", "T2",
           Content("", <<>>, ImageAt("missing.png"), NoData), {}),
      Desc(AllKeys, "picture", "T2",
           Content("", <<>>, ImageAt("broken.png"), NoData), {}),
      PlotDesc(AllKeys \cup {"configuration"}, "nodata.dat", Labels),
      PlotDesc(AllKeys \cup {"configuration"}, "bad.dat", Labels) }

DescriptorPool == GoodDescriptors \cup BadDescriptors \cup FailingDescriptors

Envs ==
    { CalmEnv,
      [CalmEnv EXCEPT !.savefig = "OSError"],
      [CalmEnv EXCEPT !.add_picture = "OSError"],
      [CalmEnv EXCEPT !.remove = "PermissionError"] }

RootObjects ==
    {[keys |-> {"presentation"}, presentation |-> sl] :
        sl \in SeqUpTo(DescriptorPool, MaxSlides)}
    \cup {[keys |-> {}, presentation |-> <<>>]}

NoTrace == [i |-> 0, at |-> 0, calls |-> <<>>, plots |-> <<>>, reads |-> <<>>]

InitMake ==
    /\ pc = "call"
    /\ args \in {[json_data |-> j, env |-> e] : j \in RootObjects, e \in Envs}
    /\ presentation = <<>>
    /\ ret = NoValue
    /\ exc = NoExc
    /\ trace = NoTrace
    /\ files = [temp |-> {}, made |-> 0]

\* The world the next builder acts on.
CurrentWorld ==
    [pres |-> presentation, temp |-> files.temp, made |-> files.made,
     plots |-> trace.plots, calls |-> trace.calls, reads |-> trace.reads,
     exc |-> NoExc, env |-> args.env]

\* Lines 254-258: the empty document and the root key.
MakeBegin ==
    /\ pc = "call"
    /\ presentation' = <<>>
    /\ IF "presentation" \notin args.json_data.keys
       THEN /\ pc' = "raised"
            /\ exc' = Raise("KeyError", "makePresentation:258", <<"presentation">>)
       ELSE /\ pc' = "loop"
            /\ exc' = NoExc
    /\ UNCHANGED <<args, ret, trace, files>>

\* Variant: the exception of a slide is swallowed and the loop goes on.
AfterSlideContinue(w) == "loop"

\* An exception raised in the loop body leaves makePresentation: no except
\* clause of the function catches it past lines 265 and 284, which re-raise.
AfterSlide(w) == IF Raised(w) THEN "raised" ELSE "loop"

\* Lines 260-289: one iteration of the loop.
MakeSlide ==
    /\ pc = "loop"
    /\ trace.i < Len(args.json_data.presentation)
    /\ LET i == trace.i + 1
           w == ProcessSlide(CurrentWorld, args.json_data.presentation[i], i)
       IN  /\ presentation' = w.pres
           /\ files' = [temp |-> w.temp, made |-> w.made]
           /\ exc' = w.exc
           /\ pc' = AfterSlide(w)
           /\ trace' = [i |-> IF Raised(w) THEN trace.i ELSE i,
                        at |-> IF Raised(w) THEN i ELSE 0,
                        calls |-> w.calls, plots |-> w.plots, reads |-> w.reads]
    /\ UNCHANGED <<args, ret>>

\* Line 291.
MakeReturn ==
    /\ pc = "loop"
    /\ trace.i = Len(args.json_data.presentation)
    /\ pc' = "returned"
    /\ ret' = Returned(presentation)
    /\ UNCHANGED <<args, presentation, exc, trace, files>>

NextMake == MakeBegin \/ MakeSlide \/ MakeReturn

SpecMake == InitMake /\ [][NextMake]_vars

\* The step-wise run ends as the whole call does.
MakeAgreesWithCall ==
    pc \in {"returned", "raised"}
        => LET r == makePresentation(args.json_data, args.env) IN
            /\ r.w.pres = presentation
            /\ r.w.exc = exc
            /\ r.ret = ret
            /\ r.w.calls = trace.calls


(***************************************************************************)
(* Claims about makePresentation.                                          *)
(***************************************************************************)
SlideTypes == {"title", "text", "list", "picture", "plot"}

\* The dispatch table of the specification.
DispatchTable ==
    [title |-> "addTitleSlide", text |-> "addTextSlide", list |-> "addListSlide",
     picture |-> "addImgSlide", plot |-> "addPlotSlide"]

JsonRoot == args.json_data.presentation

HasRoot == "presentation" \in args.json_data.keys

LacksKey(sd) == ~(AllKeys \subseteq sd.keys)

LacksPlotKey(sd) ==
    /\ AllKeys \subseteq sd.keys
    /\ sd.type = "plot"
    /\ ("configuration" \notin sd.keys \/ ~(Labels \subseteq sd.cfgkeys))

\* A descriptor with its keys and a known type whose builder has nothing to
\* fail on: positive integer levels, a decodable image, a readable
\* well-formed data file and an environment in which rendering succeeds.
ValidDescriptor(sd, env) ==
    /\ ~LacksKey(sd)
    /\ sd.type \in SlideTypes
    /\ ~LacksPlotKey(sd)
    /\ sd.type = "list" =>
        \A i \in 1..Len(sd.content.list_json) :
            /\ IntegerItem(sd.content.list_json[i])
            /\ sd.content.list_json[i].level.n >= 1
    /\ sd.type = "picture" => DecodableImage(sd.content.img)
    /\ sd.type = "plot" =>
        /\ sd.content.data.file.status = "ok"
        /\ FirstMalformed(sd.content.data.file.lines) = 0
        /\ env = CalmEnv

\* The slide is the one the descriptor's builder makes.
SlideFrom(slide, sd) ==
    /\ slide.title = sd.title
    /\ CASE sd.type = "title" ->
                /\ slide.layout = 0
                /\ slide.placeholder = sd.content.text
                /\ slide.paragraphs = <<>> /\ slide.pictures = <<>>
         [] sd.type = "text" ->
                /\ slide.layout = 1
                /\ slide.placeholder = sd.content.text
                /\ slide.paragraphs = <<>> /\ slide.pictures = <<>>
         [] sd.type = "list" ->
                /\ slide.layout = 1
                /\ slide.pictures = <<>>
                /\ Len(slide.paragraphs) = Len(sd.content.list_json)
                /\ \A j \in 1..Len(slide.paragraphs) :
                    /\ slide.paragraphs[j].text = sd.content.list_json[j].text
                    /\ slide.paragraphs[j].level = sd.content.list_json[j].level.n - 1
         [] sd.type = "picture" ->
                /\ slide.layout = 5
                /\ slide.paragraphs = <<>>
                /\ slide.pictures = <<sd.content.img.path>>
         [] sd.type = "plot" ->
                /\ slide.layout = 5
                /\ slide.paragraphs = <<>>
                /\ Len(slide.pictures) = 1
         [] OTHER -> FALSE

\* C1: for a root object of valid descriptors makePresentation starts from
\* an empty document, takes the descriptors in array order, calls for each
\* the one builder the dispatch table gives, and returns a document with one
\* slide per descriptor, the i-th made from the i-th descriptor.
C1_OneSlidePerDescriptor ==
    (HasRoot /\ \A i \in 1..Len(JsonRoot) : ValidDescriptor(JsonRoot[i], args.env))
        => /\ pc # "raised"
           /\ pc = "loop" => Len(presentation) = trace.i
           /\ pc \in {"loop", "returned"} =>
                /\ Len(trace.calls) = Len(presentation)
                /\ \A j \in 1..Len(presentation) :
                    /\ SlideFrom(presentation[j], JsonRoot[j])
                    /\ trace.calls[j] = DispatchTable[JsonRoot[j].type]
           /\ pc = "returned" =>
                /\ Len(presentation) = Len(JsonRoot)
                /\ ret.kind = "value"
                /\ ret.v = presentation

C1_Witness ==
    /\ pc = "returned"
    /\ Len(JsonRoot) = 2
    /\ JsonRoot[1].type = "plot"
    /\ JsonRoot[2].type = "text"
    /\ Len(ret.v) = 2

\* The plot descriptors among the first n: each had its data file read.
PlotsAmong(n) == {j \in 1..n : JsonRoot[j].type = "plot"}

\* C2: makePresentation raises KeyError when the root lacks 'presentation',
\* when it reaches a descriptor lacking 'type', 'title' or 'content'
\* (whatever its type; the error names the slide and the missing key), and
\* when it reaches a plot descriptor lacking 'configuration', 'x-label' or
\* 'y-label': then no builder is called, no slide is appended and the data
\* file is not read.
C2_MissingKeyRaises ==
    /\ (~HasRoot /\ pc # "call")
        => /\ pc = "raised"
           /\ exc.type = "KeyError"
           /\ exc.names = <<"presentation">>
           /\ presentation = <<>>
    /\ HasRoot
        => /\ \A j \in 1..trace.i : ~LacksKey(JsonRoot[j]) /\ ~LacksPlotKey(JsonRoot[j])
           /\ (pc = "raised" /\ LacksKey(JsonRoot[trace.at]))
                => /\ exc.type = "KeyError"
                   /\ exc.origin = "makePresentation:266"
                   /\ exc.names[1] = trace.at
                   /\ exc.names[2] \in AllKeys \ JsonRoot[trace.at].keys
                   /\ Len(presentation) = trace.i
                   /\ Len(trace.calls) = trace.i
           /\ (pc = "raised" /\ LacksPlotKey(JsonRoot[trace.at]))
                => /\ exc.type = "KeyError"
                   /\ exc.origin = "makePresentation:285"
                   /\ exc.names[1] = trace.at
                   /\ exc.names[2] \in
                        ({"configuration"} \ JsonRoot[trace.at].keys)
                            \cup (Labels \ JsonRoot[trace.at].cfgkeys)
                   /\ Len(presentation) = trace.i
                   /\ Len(trace.calls) = trace.i
                   /\ Len(trace.reads) = Cardinality(PlotsAmong(trace.i))

C2_Witness ==
    /\ pc = "raised"
    /\ trace.at = 2
    /\ JsonRoot[1].type = "plot"
    /\ JsonRoot[2].type = "plot"
    /\ "configuration" \in JsonRoot[2].keys
    /\ "x-label" \notin JsonRoot[2].cfgkeys
    /\ Len(presentation) = 1
    /\ trace.reads = <<"data.dat">>

\* C3: a descriptor with 'type', 'title' and 'content' makes
\* makePresentation raise the ValueError that names the type and the slide
\* exactly when its type is none of the five, compared case-sensitively;
\* no builder is called for it.
C3_UnknownTypeRaises ==
    HasRoot
        => /\ \A j \in 1..trace.i : JsonRoot[j].type \in SlideTypes
           /\ (pc = "raised" /\ trace.at > 0 /\ ~LacksKey(JsonRoot[trace.at]))
                => /\ (exc.type = "ValueError" /\ exc.origin = "makePresentation:289")
                        <=> JsonRoot[trace.at].type \notin SlideTypes
                   /\ JsonRoot[trace.at].type \notin SlideTypes
                        => /\ exc.names = <<JsonRoot[trace.at].type, trace.at>>
                           /\ Len(trace.calls) = trace.i
                           /\ Len(presentation) = trace.i

C3_Witness ==
    /\ pc = "raised"
    /\ trace.at = 2
    /\ JsonRoot[2].type = "Title"
    /\ ~LacksKey(JsonRoot[2])
    /\ exc.type = "ValueError"
    /\ Len(presentation) = 1


(***************************************************************************)
(* main(): the prompt loop.  pc is the stage of the current iteration:     *)
(* "prompt" (line 315), "loading" (318-329), "converting" (332-359),       *)
(* "saving" (364-375), "done" (after the break) or "crashed" (an exception *)
(* no except clause caught left main).  The locals presentation_data and   *)
(* presentation keep their values over `continue`.                         *)
(*                                                                         *)
(* trace is [iter, json_filename, presentation_data, loaded, converted,    *)
(* attempts, report]: the iteration, the locals, the iterations in which   *)
(* the data was loaded and the presentation made, the calls of save() so   *)
(* far and the last message printed; files is [saved, temp, made].         *)
(***************************************************************************)
\* except clauses of the loading stage (lines 321, 326)
LoadCaught == {"FileNotFoundError", "JSONDecodeError"}

\* except clauses of the conversion stage (lines 335, 341, 346, 351, 356)
ConvertCaught == {"FileNotFoundError", "ValueError", "KeyError", "PermissionError",
                  "TypeError"}

\* except clause of the saving stage (line 372)
SaveCaught == {"PermissionError"}

CaughtBy(classes, e) == \E cls \in classes : Catches(cls, e)

\* Variant: a caught error of the stage falls through to the next stage
\* instead of restarting the loop.
AfterStageFallThrough(classes, e, next) ==
    IF e.type = "None" \/ CaughtBy(classes, e) THEN next ELSE "crashed"

\* Where the loop goes after a stage that ended with e: on, back to the
\* prompt (`continue`) or out of main with the exception.
AfterStage(classes, e, next) ==
    IF e.type = "None" THEN next
    ELSE IF CaughtBy(classes, e) THEN "prompt"
    ELSE "crashed"

Root(slides) == [keys |-> {"presentation"}, presentation |-> slides]

\* The JSON files the user can name: what open() / json.load() do with
\* them and the data they hold.
JsonFile(name) ==
    CASE name = "deck" ->
            [status |-> "ok",
             data |-> Root(<<Desc(AllKeys, "title", "T1", TextContent("C"), {}),
                             PlotDesc(AllKeys \cup {"configuration"}, "data.dat", Labels)>>)]
      [] name = "notes" ->
            [status |-> "ok",
             data |-> Root(<<Desc(AllKeys, "text", "T2", TextContent("C"), {})>>)]
      [] name = "nokey" ->
            [status |-> "ok", data |-> [keys |-> {}, presentation |-> <<>>]]
      [] name = "badtype" ->
            [status |-> "ok",
             data |-> Root(<<Desc(AllKeys, "text", "T2", TextContent("C"), {}),
                             Desc(AllKeys, "bogus", "T1", TextContent("C"), {})>>)]
      [] name = "nodata" ->
            [status |-> "ok",
             data |-> Root(<<PlotDesc(AllKeys \cup {"configuration"}, "nodata.dat",
                                      Labels)>>)]
      [] name = "garbled" ->
            [status |-> "JSONDecodeError", data |-> Root(<<>>)]
      [] name = "locked" ->
            [status |-> "PermissionError", data |-> Root(<<>>)]
      [] OTHER ->
            [status |-> "FileNotFoundError", data |-> Root(<<>>)]

JsonNames == {"deck", "notes", "nokey", "badtype", "nodata", "garbled", "locked",
              "absent"}

\* What presentation.save() can do with the name the user gives.
SaveOutcomes == {"ok", "PermissionError", "FileNotFoundError"}

NoSaved == [name |-> "", doc |-> <<>>, from |-> "", iter |-> 0]

InitMain ==
    /\ pc = "prompt"
    /\ args \in {[env |-> e] : e \in Envs}
    /\ presentation = <<>>
    /\ ret = NoValue
    /\ exc = NoExc
    /\ trace = [iter |-> 0, json_filename |-> "", presentation_data |-> Root(<<>>),
                loaded |-> 0, converted |-> 0, attempts |-> 0, report |-> ""]
    /\ files = [saved |-> NoSaved, temp |-> {}, made |-> 0]

\* Line 315: the user names a JSON file.
Prompt ==
    /\ pc = "prompt"
    /\ trace.iter < MaxIter
    /\ \E name \in JsonNames :
        trace' = [trace EXCEPT !.iter = @ + 1, !.json_filename = name, !.report = ""]
    /\ pc' = "loading"
    /\ UNCHANGED <<args, presentation, ret, exc, files>>

\* Lines 318-329: open and json.load.
Load ==
    /\ pc = "loading"
    /\ LET f == JsonFile(trace.json_filename)
           e == IF f.status = "ok" THEN NoExc
                ELSE Raise(f.status, "main:319", <<trace.json_filename>>)
       IN  /\ pc' = AfterStage(LoadCaught, e, "converting")
           /\ exc' = IF pc' = "crashed" THEN e ELSE NoExc
           /\ trace' = IF f.status = "ok"
                       THEN [trace EXCEPT !.presentation_data = f.data,
                                          !.loaded = trace.iter]
                       ELSE [trace EXCEPT !.report = IF pc' = "crashed" THEN ""
                                                     ELSE f.status]
    /\ UNCHANGED <<args, presentation, ret, files>>

\* Lines 332-361: makePresentation and its except clauses.
Convert ==
    /\ pc = "converting"
    /\ LET r == makePresentation(trace.presentation_data, args.env)
           made == r.w.made
       IN  /\ pc' = AfterStage(ConvertCaught, r.w.exc, "saving")
           /\ exc' = IF pc' = "crashed" THEN r.w.exc ELSE NoExc
           /\ presentation' = IF r.ret.kind = "value" THEN r.ret.v ELSE presentation
           /\ trace' = IF r.ret.kind = "value"
                       THEN [trace EXCEPT !.converted = trace.iter, !.report = "converted"]
                       ELSE [trace EXCEPT !.report = IF pc' = "crashed" THEN ""
                                                     ELSE r.w.exc.type]
           /\ files' = [files EXCEPT !.temp = @ \cup {<<trace.iter, t>> : t \in r.w.temp},
                                     !.made = @ + made]
    /\ UNCHANGED <<args, ret>>

\* Lines 364-375: the output name and presentation.save().
Save ==
    /\ pc = "saving"
    /\ \E outcome \in SaveOutcomes :
        LET e == IF outcome = "ok" THEN NoExc ELSE Raise(outcome, "main:367", <<"out.pptx">>)
        IN  /\ pc' = AfterStage(SaveCaught, e, "done")
            /\ exc' = IF pc' = "crashed" THEN e ELSE NoExc
            /\ files' = IF outcome = "ok"
                        THEN [files EXCEPT !.saved = [name |-> "out.pptx",
                                                      doc |-> presentation,
                                                      from |-> trace.json_filename,
                                                      iter |-> trace.iter]]
                        ELSE files
            /\ trace' = [trace EXCEPT !.attempts = @ + 1,
                                      !.report = IF outcome = "ok" THEN "saved"
                                                 ELSE IF pc' = "crashed" THEN ""
                                                 ELSE outcome]
    /\ UNCHANGED <<args, presentation, ret>>

NextMain == Prompt \/ Load \/ Convert \/ Save

SpecMain == InitMain /\ [][NextMain]_vars


(***************************************************************************)
(* Claims about main().                                                    *)
(***************************************************************************)
\* The exception classes of the error taxonomy: input not found, parse
\* error, schema-validation error, permission error.
TaxonomyErrors == {"FileNotFoundError", "JSONDecodeError", "ValueError", "KeyError",
                   "PermissionError"}

\* C8: nothing is fatal to the driver: no error of the taxonomy, at
\* whichever stage it occurs (loading, converting, saving), ends main();
\* each is reported and the loop restarts at the prompt.
C8_NothingFatal ==
    /\ pc = "crashed" => exc.type \notin TaxonomyErrors
    /\ trace.report \in TaxonomyErrors => pc = "prompt"

\* C9: main() leaves its loop only after a successful save made in the
\* same iteration as the load and the conversion; every call of save() is
\* made on the document converted, in that iteration, from the file named
\* in that iteration, so also the save that follows a permission error.
C9_ExitOnlyAfterSave ==
    /\ pc = "saving" =>
        /\ trace.loaded = trace.iter
        /\ trace.converted = trace.iter
        /\ JsonFile(trace.json_filename).status = "ok"
        /\ trace.presentation_data = JsonFile(trace.json_filename).data
        /\ LET r == makePresentation(trace.presentation_data, args.env) IN
            /\ r.ret.kind = "value"
            /\ r.ret.v = presentation
    /\ pc = "done" =>
        /\ files.saved.iter = trace.iter
        /\ trace.loaded = trace.iter
        /\ trace.converted = trace.iter
    /\ files.saved.iter # 0 =>
        /\ pc = "done"
        /\ files.saved.from = trace.json_filename
        /\ files.saved.doc = presentation
        /\ LET r == makePresentation(JsonFile(files.saved.from).data, args.env) IN
            /\ r.ret.kind = "value"
            /\ r.ret.v = files.saved.doc

C9_Witness ==
    /\ pc = "done"
    /\ trace.iter = 2
    /\ trace.attempts = 2
    /\ trace.json_filename = "notes"
    /\ Len(files.saved.doc) = 1


(***************************************************************************)
(* Claims about the abort of makePresentation.                             *)
(***************************************************************************)
MakeOrigins == {"makePresentation:266", "makePresentation:285", "makePresentation:289"}

\* C11: makePresentation aborts on the first error in array order: once a
\* descriptor has failed no later descriptor is validated or dispatched,
\* no document is returned, and the slides of the descriptors before it
\* are still in the document, in order.
C11_AbortsOnFirstError ==
    /\ exc.type # "None" => pc = "raised"
    /\ pc = "returned" => trace.at = 0
    /\ (pc = "raised" /\ HasRoot)
        => /\ ret.kind = "none"
           /\ trace.at = trace.i + 1
           /\ Len(trace.calls) <= trace.at
           /\ Len(presentation) <= trace.at
           /\ Len(trace.reads) <= Cardinality(PlotsAmong(trace.at))
           /\ \A j \in 1..trace.i :
                /\ SlideFrom(presentation[j], JsonRoot[j])
                /\ trace.calls[j] = DispatchTable[JsonRoot[j].type]
           /\ ~ENABLED NextMake

C11_Witness ==
    /\ pc = "raised"
    /\ trace.at = 1
    /\ Len(JsonRoot) = 2
    /\ ValidDescriptor(JsonRoot[2], args.env)
    /\ JsonRoot[1].type = "picture"
    /\ trace.calls = <<"addImgSlide">>

C11_WitnessPrefix ==
    /\ pc = "raised"
    /\ trace.at = 2
    /\ JsonRoot[1].type = "list"
    /\ Len(presentation[1].paragraphs) = 2
    /\ exc.origin = "makePresentation:289"


(***************************************************************************)
(* Claims about the temporary file of the plot slide.                      *)
(***************************************************************************)
\* C12: on every path out of the plot-slide builder after createPlotImage
\* has created the temporary file, the file has been deleted or a deletion
\* error has been raised: no temporary file is left behind when the builder
\* returned or raised another error.
C12_TempFileCleanedUp ==
    /\ pc \in {"loop", "returned"} => files.temp = {}
    /\ pc = "raised" => (files.temp = {} \/ exc.origin = "addChartToPlotSlide:207")

\* The same for the runs in which the figure is saved and embedded.
C12_WhenEmbedded ==
    (args.env.savefig = "ok" /\ args.env.add_picture = "ok") => C12_TempFileCleanedUp

C12_WhenEmbeddedWitness ==
    /\ pc = "returned"
    /\ files.made = 2
    /\ files.temp = {}


(***************************************************************************)
(* Claims about the order of points with equal x.                          *)
(***************************************************************************)
\* The points of s whose x-value equals x, in the order they have in s.
WithX(s, x) == SelectSeq(s, LAMBDA p : FloatEQ(p[1], x))

XValues == {p[1] : p \in PointPool}

\* C13: the sort is stable on x only: points with equal x-values are
\* plotted in the relative order they have in the input, whatever their
\* y-values.
C13_StableOnX ==
    pc # "call"
        => \A x \in XValues : WithX(trace[1].points, x) = WithX(args.datapoints, x)

\* C13 as amended: the points are plotted in ascending order of (x, y):
\* points with equal x-values are plotted in ascending order of y, whatever
\* order they have in the input.
C13_SortedByXThenY ==
    pc # "call"
        => /\ IsPermutation(trace[1].points, args.datapoints)
           /\ \A i \in 1..(Len(trace[1].points) - 1) :
                LET p == trace[1].points[i]
                    q == trace[1].points[i + 1]
                IN  /\ ~FloatLT(q[1], p[1])
                    /\ FloatEQ(p[1], q[1]) => ~FloatLT(q[2], p[2])

C13_Witness ==
    /\ pc = "returned"
    /\ args.datapoints = <<<<Num(1), Num(4)>>, <<Num(3), Num(2)>>, <<Num(1), Num(2)>>>>
    /\ trace[1].points = <<<<Num(1), Num(2)>>, <<Num(1), Num(4)>>, <<Num(3), Num(2)>>>>


(***************************************************************************)
(* Claims about the slide a failing builder leaves behind.                 *)
(***************************************************************************)
ValidatingBuilders == {"addListSlide", "addImgSlide", "addPlotSlide"}

\* C14: every builder appends its slide before it validates its content, so
\* a builder that raises has still added exactly one slide: when
\* makePresentation aborts at the descriptor at position trace.at (counted
\* from 1) the document holds trace.at slides if the failure came from
\* inside a builder and trace.at - 1 slides if it came from the validation
\* of the descriptor (missing key, missing plot configuration, invalid
\* type).
C14_SlideAddedBeforeValidation ==
    /\ Len(presentation) = Len(trace.calls)
    /\ (pc = "raised" /\ HasRoot)
        => IF exc.origin \in MakeOrigins
           THEN Len(presentation) = trace.at - 1
           ELSE /\ Len(presentation) = trace.at
                /\ trace.calls[trace.at] \in ValidatingBuilders
                /\ trace.calls[trace.at] = DispatchTable[JsonRoot[trace.at].type]
                /\ presentation[trace.at].title = JsonRoot[trace.at].title
                /\ presentation[trace.at].pictures = <<>>
                    \/ exc.origin = "addChartToPlotSlide:207"

C14_Witness ==
    /\ pc = "raised"
    /\ trace.at = 2
    /\ JsonRoot[2].type = "picture"
    /\ exc.origin = "addImgSlide:124"
    /\ Len(presentation) = 2
    /\ presentation[2].title = JsonRoot[2].title

C14_WitnessValidation ==
    /\ pc = "raised"
    /\ trace.at = 2
    /\ exc.origin = "makePresentation:266"
    /\ Len(presentation) = 1

C14_WitnessList ==
    /\ pc = "raised"
    /\ HasRoot
    /\ trace.at \in 1..Len(JsonRoot)
    /\ JsonRoot[trace.at].type = "list"
    /\ exc.origin = "addListSlide:78"
    /\ Len(presentation) = trace.at

C14_WitnessPlot ==
    /\ pc = "raised"
    /\ HasRoot
    /\ trace.at \in 1..Len(JsonRoot)
    /\ JsonRoot[trace.at].type = "plot"
    /\ exc.origin = "readDataFile:154"
    /\ Len(presentation) = trace.at

====
